---- MODULE Spec2Model ----
(***************************************************************************)
(* A model of elysia-clerk-mock (src/index.ts): the ElysiaClerkMock store  *)
(* that holds the current and the default mock identity, and the request   *)
(* gate its plugin installs.                                               *)
(*                                                                         *)
(* JavaScript objects are cells of a heap and are held by reference, so    *)
(* that the object spread { ...a, ...b } is what it is in the source: a    *)
(* new top-level object whose nested objects are shared with a and b.      *)
(***************************************************************************)
EXTENDS Integers, Sequences, FiniteSets, TLC

VARIABLES
    heap,               \* address -> object (a function from keys to values)
    authObject,         \* this.authObject: address of the current identity
    defaultAuthObject,  \* this.defaultAuthObject: address of the default
    installed,          \* plugin() was called and its plugin is in use by an app
    last,               \* the last call: its name, argument and result
    userIdAtPlugin,     \* history: the current userId when plugin() was called
    constructed,        \* history: the identity captured at construction
    kept,               \* what the caller keeps of an earlier call's result
    other               \* a second store, when there is one

vars == <<heap, authObject, defaultAuthObject, installed, last,
          userIdAtPlugin, constructed, kept, other>>

----------------------------------------------------------------------------
(* JavaScript values.  Every value is a record with a kind, so that any    *)
(* two values can be compared.                                             *)

Null == [kind |-> "null"]
Undefined == [kind |-> "undefined"]
Str(s) == [kind |-> "string", s |-> s]
Num(n) == [kind |-> "number", n |-> n]
Fn(src) == [kind |-> "function", src |-> src]
Ref(a) == [kind |-> "object", a |-> a]

\* An object or array literal in the caller's code: evaluating it allocates.
Lit(fields) == [kind |-> "literal", fields |-> fields]

\* A header value: a string as the sequence of its characters.
Text(chars) == [kind |-> "string", chars |-> chars]

EmptyObject == [k \in {} |-> Null]

----------------------------------------------------------------------------
(* The heap.                                                               *)

NewAddr(h) ==
    CHOOSE a \in 1..(Cardinality(DOMAIN h) + 1) :
        a \notin DOMAIN h /\ \A b \in 1..(a - 1) : b \in DOMAIN h

Alloc(h, cell) ==
    LET a == NewAddr(h) IN [h |-> h @@ (a :> cell), a |-> a]

RECURSIVE Build(_, _), BuildFields(_, _, _, _)

\* Evaluate the properties `keys` of an object literal in heap h, adding
\* them to the object under construction acc.
BuildFields(h, fields, keys, acc) ==
    IF keys = {} THEN [h |-> h, cell |-> acc]
    ELSE LET k == CHOOSE x \in keys : TRUE
             r == Build(h, fields[k])
         IN  BuildFields(r.h, fields, keys \ {k}, acc @@ (k :> r.v))

\* Evaluate an expression: a literal allocates a new object, any other
\* value is itself.
Build(h, v) ==
    IF v.kind # "literal" THEN [h |-> h, v |-> v]
    ELSE LET r == BuildFields(h, v.fields, DOMAIN v.fields, EmptyObject)
             n == Alloc(r.h, r.cell)
         IN  [h |-> n.h, v |-> Ref(n.a)]

\* The object an argument literal evaluates to (its own properties).
Evaluate(h, fields) == BuildFields(h, fields, DOMAIN fields, EmptyObject)

\* { ...target, ...source }
Spread(target, source) ==
    [k \in DOMAIN target \cup DOMAIN source |->
        IF k \in DOMAIN source THEN source[k] ELSE target[k]]

RefsOf(cell) ==
    {cell[k].a : k \in {x \in DOMAIN cell : cell[x].kind = "object"}}

Range(seq) == {seq[i] : i \in 1..Len(seq)}

\* The keys under which the objects of this program hold other objects, in
\* the order the heap is walked.
NestedKeys == <<"sessionClaims", "actor", "orgPermissions", "roles">>

IsNested(cell, k) == k \in DOMAIN cell /\ cell[k].kind = "object"

Children(cell) ==
    LET ks == SelectSeq(NestedKeys, LAMBDA k : IsNested(cell, k))
    IN  [i \in 1..Len(ks) |-> cell[ks[i]].a]

RECURSIVE Visit(_, _, _), VisitAll(_, _, _)
Visit(h, seen, a) ==
    IF a \in Range(seen) THEN seen
    ELSE VisitAll(h, Append(seen, a), Children(h[a]))
VisitAll(h, seen, as) ==
    IF as = <<>> THEN seen
    ELSE VisitAll(h, Visit(h, seen, Head(as)), Tail(as))

Index(seq, x) == CHOOSE i \in 1..Len(seq) : seq[i] = x

Rename(order, v) ==
    IF v.kind = "object" THEN Ref(Index(order, v.a)) ELSE v

\* The objects the roots lead to, in the order they are met.  An object
\* nothing leads to is gone, and addresses carry no meaning of their own:
\* the live objects are renumbered in this order.
Live(h, roots) == VisitAll(h, <<>>, roots)

Collect(h, order) ==
    [i \in 1..Len(order) |->
        [k \in DOMAIN h[order[i]] |-> Rename(order, h[order[i]][k])]]

\* A value with every reference replaced by the object it leads to.
RECURSIVE Deep(_, _)
Deep(h, v) ==
    IF v.kind = "object"
    THEN [k \in DOMAIN h[v.a] |-> Deep(h, h[v.a][k])]
    ELSE v

\* The value a literal denotes.
RECURSIVE DeepLit(_)
DeepLit(v) ==
    IF v.kind = "literal"
    THEN [k \in DOMAIN v.fields |-> DeepLit(v.fields[k])]
    ELSE v

----------------------------------------------------------------------------
(* src/index.ts                                                            *)

AsyncEmptyString == Fn("async () => \"\"")
AlwaysFalse == Fn("() => false")
EmptyRecord == Fn("() => ({})")

\* What calling one of the functions of an identity gives: has(p) a
\* boolean, getToken() a promise, debug() a new object.
Call(fn, argument) ==
    IF fn = AlwaysFalse THEN [kind |-> "boolean", b |-> FALSE]
    ELSE IF fn = AsyncEmptyString THEN [kind |-> "promise", value |-> Str("")]
    ELSE IF fn = EmptyRecord THEN Lit(EmptyObject)
    ELSE Undefined

DEFAULT_AUTH_OBJECT == 1

DefaultSessionClaims ==
    [__raw |-> Str(""), sub |-> Str("user_default"),
     iss |-> Str("https://clerk.com"), sid |-> Str("sess_default"),
     nbf |-> Num(0), exp |-> Num(0), iat |-> Num(0)]

\* The heap once the module is loaded: DEFAULT_AUTH_OBJECT and its
\* sessionClaims.
ModuleHeap ==
    LET c == Alloc(DEFAULT_AUTH_OBJECT :> EmptyObject, DefaultSessionClaims)
    IN  [c.h EXCEPT ![DEFAULT_AUTH_OBJECT] =
            [userId |-> Str("user_default"),
             orgId |-> Str("org_default"),
             sessionClaims |-> Ref(c.a),
             sessionId |-> Str("sess_default"),
             actor |-> Undefined,
             orgRole |-> Str("org:member"),
             orgSlug |-> Undefined,
             orgPermissions |-> Undefined,
             factorVerificationAge |-> Null,
             getToken |-> AsyncEmptyString,
             has |-> AlwaysFalse,
             debug |-> EmptyRecord]]

\* The constructor with the spread the wrong way round: the built-in
\* fields win over initialUser.
ConstructorDefaultsWin(h, initialUser) ==
    LET a == Alloc(h, Spread(initialUser, h[DEFAULT_AUTH_OBJECT]))
        d == Alloc(a.h, Spread(EmptyObject, a.h[a.a]))
    IN  [h |-> d.h,
         this |-> [authObject |-> a.a, defaultAuthObject |-> d.a]]

\* new ElysiaClerkMock(initialUser)
Constructor(h, initialUser) ==
    LET a == Alloc(h, Spread(h[DEFAULT_AUTH_OBJECT], initialUser))
        d == Alloc(a.h, Spread(EmptyObject, a.h[a.a]))
    IN  [h |-> d.h,
         this |-> [authObject |-> a.a, defaultAuthObject |-> d.a]]

\* setUser with the spread the wrong way round: the current fields win.
SetUserCurrentWins(h, this, userData) ==
    LET a == Alloc(h, Spread(userData, h[this.authObject]))
        r == Alloc(a.h, Spread(EmptyObject, a.h[a.a]))
    IN  [h |-> r.h, this |-> [this EXCEPT !.authObject = a.a],
         ret |-> Ref(r.a)]

\* setUser merging a supplied sessionClaims into the current one.
SetUserDeepMerge(h, this, userData) ==
    LET cur == h[this.authObject]
        both == IsNested(cur, "sessionClaims") /\ IsNested(userData, "sessionClaims")
        m == Alloc(h, IF both
                      THEN Spread(h[cur.sessionClaims.a], h[userData.sessionClaims.a])
                      ELSE EmptyObject)
        a == Alloc(m.h, IF both
                        THEN [Spread(cur, userData) EXCEPT !.sessionClaims = Ref(m.a)]
                        ELSE Spread(cur, userData))
        r == Alloc(a.h, Spread(EmptyObject, a.h[a.a]))
    IN  [h |-> r.h, this |-> [this EXCEPT !.authObject = a.a],
         ret |-> Ref(r.a)]

\* setUser storing the new identity as the default too.
SetUserAsDefault(h, this, userData) ==
    LET a == Alloc(h, Spread(h[this.authObject], userData))
        r == Alloc(a.h, Spread(EmptyObject, a.h[a.a]))
    IN  [h |-> r.h,
         this |-> [authObject |-> a.a, defaultAuthObject |-> a.a],
         ret |-> Ref(r.a)]

\* setUser keeping the identity in the module's one DEFAULT_AUTH_OBJECT
\* instead of in an object of its own.
SetUserStatic(h, this, userData) ==
    LET a == [h EXCEPT ![DEFAULT_AUTH_OBJECT] = Spread(h[this.authObject], userData)]
        r == Alloc(a, Spread(EmptyObject, a[DEFAULT_AUTH_OBJECT]))
    IN  [h |-> r.h, this |-> [this EXCEPT !.authObject = DEFAULT_AUTH_OBJECT],
         ret |-> Ref(r.a)]

\* setUser writing into the current object: Object.assign(this.authObject,
\* userData).
SetUserInPlace(h, this, userData) ==
    LET a == [h EXCEPT ![this.authObject] = Spread(@, userData)]
        r == Alloc(a, Spread(EmptyObject, a[this.authObject]))
    IN  [h |-> r.h, this |-> this, ret |-> Ref(r.a)]

\* setUser(userData)
SetUser(h, this, userData) ==
    LET a == Alloc(h, Spread(h[this.authObject], userData))
        r == Alloc(a.h, Spread(EmptyObject, a.h[a.a]))
    IN  [h |-> r.h, this |-> [this EXCEPT !.authObject = a.a],
         ret |-> Ref(r.a)]

\* The admin preset granting every permission.
AdminPresetCan ==
    [userId |-> Str("user_admin"),
     orgId |-> Str("org_admin"),
     orgRole |-> Str("org:admin"),
     has |-> Fn("() => true"),
     sessionClaims |-> Lit(
        [__raw |-> Str(""), sub |-> Str("user_admin"),
         iss |-> Str("https://clerk.com"), sid |-> Str("sess_admin"),
         nbf |-> Num(0), exp |-> Num(0), iat |-> Num(0),
         roles |-> Lit("0" :> Str("org:admin"))])]

AdminPreset ==
    [userId |-> Str("user_admin"),
     orgId |-> Str("org_admin"),
     orgRole |-> Str("org:admin"),
     sessionClaims |-> Lit(
        [__raw |-> Str(""), sub |-> Str("user_admin"),
         iss |-> Str("https://clerk.com"), sid |-> Str("sess_admin"),
         nbf |-> Num(0), exp |-> Num(0), iat |-> Num(0),
         roles |-> Lit("0" :> Str("org:admin"))])]

UserPreset ==
    [userId |-> Str("user_regular"),
     orgId |-> Str("org_regular"),
     orgRole |-> Str("org:member"),
     sessionClaims |-> Lit(
        [__raw |-> Str(""), sub |-> Str("user_regular"),
         iss |-> Str("https://clerk.com"), sid |-> Str("sess_user"),
         nbf |-> Num(0), exp |-> Num(0), iat |-> Num(0),
         roles |-> Lit("0" :> Str("org:member"))])]

\* The preset spread after the caller's fields: the preset wins.
MockPresetWins(h, this, preset, customProps) ==
    LET p == Evaluate(h, preset)
        s == SetUser(p.h, this, Spread(customProps, p.cell))
        r == Alloc(s.h, Spread(EmptyObject, s.h[s.this.authObject]))
    IN  [h |-> r.h, this |-> s.this, ret |-> Ref(r.a)]

\* The body mockAdmin and mockUser share: setUser({ ...preset,
\* ...customProps }), then return { ...this.authObject }.
MockPreset(h, this, preset, customProps) ==
    LET p == Evaluate(h, preset)
        s == SetUser(p.h, this, Spread(p.cell, customProps))
        r == Alloc(s.h, Spread(EmptyObject, s.h[s.this.authObject]))
    IN  [h |-> r.h, this |-> s.this, ret |-> Ref(r.a)]

\* mockAdmin(customProps)
MockAdmin(h, this, customProps) == MockPreset(h, this, AdminPreset, customProps)

\* mockUser built on the admin preset.
MockUserAsAdmin(h, this, customProps) ==
    MockPreset(h, this, AdminPreset, customProps)

\* mockUser(customProps)
MockUser(h, this, customProps) == MockPreset(h, this, UserPreset, customProps)

SignedOut ==
    [userId |-> Null, orgId |-> Null, sessionClaims |-> Null,
     sessionId |-> Null, actor |-> Null, orgRole |-> Null,
     orgSlug |-> Null, orgPermissions |-> Null,
     factorVerificationAge |-> Null,
     getToken |-> AsyncEmptyString, has |-> AlwaysFalse,
     debug |-> EmptyRecord]

\* mockUnauthenticated merging the signed-out fields into the current
\* identity, as setUser would.
MockUnauthenticatedMerging(h, this) ==
    LET a == Alloc(h, Spread(h[this.authObject], SignedOut))
        r == Alloc(a.h, Spread(EmptyObject, a.h[a.a]))
    IN  [h |-> r.h, this |-> [this EXCEPT !.authObject = a.a],
         ret |-> Ref(r.a)]

\* mockUnauthenticated()
MockUnauthenticated(h, this) ==
    LET a == Alloc(h, SignedOut)
        r == Alloc(a.h, Spread(EmptyObject, a.h[a.a]))
    IN  [h |-> r.h, this |-> [this EXCEPT !.authObject = a.a],
         ret |-> Ref(r.a)]

\* getUser()
GetUser(h, this) ==
    LET r == Alloc(h, Spread(EmptyObject, h[this.authObject]))
    IN  [h |-> r.h, this |-> this, ret |-> Ref(r.a)]

\* reset exchanging the current and the default identity.
ResetSwapping(h, this) ==
    LET a == Alloc(h, Spread(EmptyObject, h[this.defaultAuthObject]))
    IN  [h |-> a.h,
         this |-> [authObject |-> a.a, defaultAuthObject |-> this.authObject],
         ret |-> Undefined]

\* reset()
Reset(h, this) ==
    LET a == Alloc(h, Spread(EmptyObject, h[this.defaultAuthObject]))
    IN  [h |-> a.h, this |-> [this EXCEPT !.authObject = a.a],
         ret |-> Undefined]

----------------------------------------------------------------------------
(* The request gate: the resolve hook of plugin().                         *)

BearerPrefix == <<"B", "e", "a", "r", "e", "r", " ">>
InvalidToken == <<"i", "n", "v", "a", "l", "i", "d", "-", "t", "o", "k", "e", "n">>
ExpiredToken == <<"e", "x", "p", "i", "r", "e", "d", "-", "t", "o", "k", "e", "n">>

StartsWith(chars, prefix) ==
    /\ Len(chars) >= Len(prefix)
    /\ SubSeq(chars, 1, Len(prefix)) = prefix

\* !authorization, for the string or null that headers.get returns
Falsy(v) == v = Null \/ v = Text(<<>>)

Error(status, message) ==
    [kind |-> "error", status |-> status, message |-> message]

\* The prefix test without the space: startsWith("Bearer").
NoTokenNoSpace(authorization) ==
    Falsy(authorization)
        \/ ~StartsWith(authorization.chars, <<"B", "e", "a", "r", "e", "r">>)

\* !authorization || !authorization.startsWith("Bearer ")
NoToken(authorization) ==
    Falsy(authorization) \/ ~StartsWith(authorization.chars, BearerPrefix)

\* The comparison with the token alone: authorization === "invalid-token".
IsInvalidTokenBare(authorization) ==
    authorization = Text(InvalidToken)

\* The comparison as a prefix test: startsWith("Bearer invalid-token").
IsInvalidTokenPrefix(authorization) ==
    StartsWith(authorization.chars, BearerPrefix \o InvalidToken)

\* authorization === "Bearer invalid-token"
IsInvalidToken(authorization) ==
    authorization = Text(BearerPrefix \o InvalidToken)

\* The comparison with the token alone: authorization === "expired-token".
IsExpiredTokenBare(authorization) ==
    authorization = Text(ExpiredToken)

\* authorization === "Bearer expired-token"
IsExpiredToken(authorization) ==
    authorization = Text(BearerPrefix \o ExpiredToken)

\* The hook attaching the identity captured when the store was built.
AttachDefault(h, this) ==
    [kind |-> "context", auth |-> Ref(this.defaultAuthObject)]

\* return { auth: this.authObject }
Attach(h, this) == [kind |-> "context", auth |-> Ref(this.authObject)]

\* The hook turning away every request while the store is signed out.
ResolveSignedInOnly(h, this, authorization) ==
    [h |-> h, this |-> this,
     ret |-> IF NoToken(authorization) \/ h[this.authObject].userId = Null
             THEN Error(401, "Unauthorized - No token provided")
             ELSE IF IsInvalidToken(authorization)
             THEN Error(401, "Unauthorized - Invalid token")
             ELSE IF IsExpiredToken(authorization)
             THEN Error(401, "Unauthorized - Expired token")
             ELSE Attach(h, this)]

\* The hook putting the store back to its default once it has admitted a
\* request.
ResolveThenReset(h, this, authorization) ==
    IF NoToken(authorization)
    THEN [h |-> h, this |-> this,
          ret |-> Error(401, "Unauthorized - No token provided")]
    ELSE IF IsInvalidToken(authorization)
    THEN [h |-> h, this |-> this,
          ret |-> Error(401, "Unauthorized - Invalid token")]
    ELSE IF IsExpiredToken(authorization)
    THEN [h |-> h, this |-> this,
          ret |-> Error(401, "Unauthorized - Expired token")]
    ELSE LET r == Reset(h, this)
         IN  [h |-> r.h, this |-> r.this, ret |-> Attach(h, this)]

\* The resolve hook, for a request whose headers.get("Authorization") is
\* authorization.
Resolve(h, this, authorization) ==
    [h |-> h, this |-> this,
     ret |-> IF NoToken(authorization)
             THEN Error(401, "Unauthorized - No token provided")
             ELSE IF IsInvalidToken(authorization)
             THEN Error(401, "Unauthorized - Invalid token")
             ELSE IF IsExpiredToken(authorization)
             THEN Error(401, "Unauthorized - Expired token")
             ELSE Attach(h, this)]

\* The routes of the app the plugin is installed into: "/protected" reads
\* auth, "/public" does not.
Routes == {"/protected", "/public"}

\* The handler of a route, run with the context the hook left.
RunHandler(h, route, context) ==
    IF route = "/public" THEN [status |-> Str("public")]
    ELSE IF "auth" \notin DOMAIN context
              \/ h[context.auth.a].userId \in {Null, Undefined, Str("")}
    THEN [status |-> Str("unauthorized")]
    ELSE [status |-> Str("authorized"), user |-> h[context.auth.a].userId]

\* A lifecycle that goes on to the handler whatever the hook returned.
HandleNoShortCircuit(h, this, authorization, route) ==
    LET g == Resolve(h, this, authorization)
    IN  [h |-> g.h, this |-> g.this, ret |-> g.ret,
         response |-> [route |-> route, handler |-> route, status |-> 200,
                       body |-> RunHandler(g.h, route, g.ret)]]

\* A request to `route` of an app that uses the plugin: the hook runs
\* first; when it returns error(...) that is the response and the handler
\* is not run, otherwise the handler runs with what the hook returned in
\* its context.
Handle(h, this, authorization, route) ==
    LET g == Resolve(h, this, authorization)
    IN  [h |-> g.h, this |-> g.this, ret |-> g.ret,
         response |->
            IF g.ret.kind = "error"
            THEN [route |-> route, handler |-> "none",
                  status |-> g.ret.status, body |-> Str(g.ret.message)]
            ELSE [route |-> route, handler |-> route, status |-> 200,
                  body |-> RunHandler(g.h, route, g.ret)]]

\* The status taken from the request's header instead of the store.
AuthenticateRequestByHeader(h, this, request) ==
    [h |-> h, this |-> this,
     ret |-> [kind |-> "requestState",
              status |-> IF ~NoToken(request)
                         THEN "signed_in" ELSE "signed_out",
              headers |-> EmptyObject]]

\* mockClerkClient.authenticateRequest(_request): the status is computed
\* when the request state is made, and the request is not looked at.
AuthenticateRequest(h, this, request) ==
    [h |-> h, this |-> this,
     ret |-> [kind |-> "requestState",
              status |-> IF h[this.authObject].userId # Null
                         THEN "signed_in" ELSE "signed_out",
              headers |-> EmptyObject]]

\* toAuth() of a request state: the store is read when it is called.
ToAuth(h, this) ==
    [h |-> h, this |-> this,
     ret |-> [kind |-> "auth",
              userId |-> h[this.authObject].userId,
              orgId |-> h[this.authObject].orgId,
              isAuthenticated |-> h[this.authObject].userId # Null]]

\* plugin(options): a new Elysia instance; the store is only read, and
\* only when the client or the hook is called.
Plugin(h, this) ==
    [h |-> h, this |-> this,
     ret |-> [kind |-> "elysia", name |-> "elysia-clerk"]]

----------------------------------------------------------------------------
(* What the callers pass.                                                  *)

CustomClaims ==
    [__raw |-> Str(""), sub |-> Str("user_456"),
     iss |-> Str("https://clerk.com"), sid |-> Str("sess_custom"),
     nbf |-> Num(0), exp |-> Num(0), iat |-> Num(0),
     customClaim |-> Str("custom-value")]

UserDatas ==
    { EmptyObject,
      [userId |-> Str("u1"), orgId |-> Str("o1")],
      [sessionClaims |-> Lit(CustomClaims)],
      [actor |-> Lit([sub |-> Str("admin_x")]),
       orgPermissions |-> Lit("0" :> Str("org:read")),
       customField |-> Str("x")] }

InitialUsers ==
    { EmptyObject,
      [userId |-> Str("user_init"), orgRole |-> Str("org:owner")] }

\* The longest token of the tokens tried beside the named ones.
MaxTokenLen == 2

TokenChars == {"a"}

Tokens == UNION {[1..n -> TokenChars] : n \in 0..MaxTokenLen}

Authorizations ==
    { Null, Text(<<>>),
      Text(<<"b", "e", "a", "r", "e", "r", " ", "x">>),
      Text(<<"B", "e", "a", "r", "e", "r">>),
      Text(<<"T", "o", "k", "e", "n", " ", "x">>),
      Text(BearerPrefix \o InvalidToken),
      Text(BearerPrefix \o ExpiredToken),
      Text(BearerPrefix \o <<"v", "a", "l", "i", "d", "-", "t", "o", "k", "e", "n">>),
      Text(BearerPrefix \o InvalidToken \o <<"2">>),
      Text(BearerPrefix \o <<"I", "n", "v", "a", "l", "i", "d", "-", "T", "o", "k", "e", "n">>) }
    \cup {Text(BearerPrefix \o t) : t \in Tokens}

\* The Authorization headers of the requests handed to the clerk client.
ClerkRequests ==
    { Null,
      Text(BearerPrefix \o InvalidToken),
      Text(BearerPrefix \o <<"v", "a", "l", "i", "d", "-", "t", "o", "k", "e", "n">>) }

----------------------------------------------------------------------------
(* The state machine: a test that calls the store and sends requests.      *)

This == [authObject |-> authObject, defaultAuthObject |-> defaultAuthObject]

\* The objects a result holds.
Held(ret) ==
    IF ret.kind = "object" THEN <<ret.a>>
    ELSE IF ret.kind = "context" THEN <<ret.auth.a>>
    ELSE <<>>

RenameResult(order, ret) ==
    IF ret.kind = "context"
    THEN [ret EXCEPT !.auth = Rename(order, ret.auth)]
    ELSE Rename(order, ret)

Roots(this, ret) ==
    <<DEFAULT_AUTH_OBJECT, this.defaultAuthObject, this.authObject>> \o Held(ret)

Init ==
    \E initialUser \in InitialUsers :
        LET e == Evaluate(ModuleHeap, initialUser)
            c == Constructor(e.h, e.cell)
            order == Live(c.h, Roots(c.this, Undefined))
        IN  /\ heap = Collect(c.h, order)
            /\ authObject = Index(order, c.this.authObject)
            /\ defaultAuthObject = Index(order, c.this.defaultAuthObject)
            /\ installed = FALSE
            /\ last = [op |-> "new", arg |-> initialUser, ret |-> Undefined,
                       again |-> FALSE, response |-> Undefined,
                       fresh |-> FALSE]
            /\ userIdAtPlugin = Undefined
            /\ constructed = Deep(c.h, Ref(c.this.authObject))
            /\ kept = Undefined
            /\ other = Undefined

\* The operations that replace the current identity.
Mutators == {"setUser", "mockAdmin", "mockUser", "mockUnauthenticated", "reset"}

\* The object the caller keeps, if it keeps one.
KeptRoots(k) == IF k.kind = "handed" THEN <<k.object.a>> ELSE <<>>

\* The objects of the second store, if there is one.
OtherRoots(o) ==
    IF o.kind = "store" THEN <<o.defaultAuthObject, o.authObject>> ELSE <<>>

\* What the caller keeps, after the call op: k.later counts the mutators
\* called since the object was handed out.
RenameKept(order, k, op) ==
    IF k.kind = "handed"
    THEN [k EXCEPT !.object = Rename(order, @),
                   !.later = IF op \in Mutators THEN @ + 1 ELSE @]
    ELSE k

\* The second store, after the call op on the first: o.calls counts the
\* mutators called on either store.
RenameOther(order, o, op) ==
    IF o.kind = "store"
    THEN [o EXCEPT !.authObject = Index(order, @),
                   !.defaultAuthObject = Index(order, @),
                   !.calls = IF op \in Mutators THEN @ + 1 ELSE @]
    ELSE o

\* The call op(arg) returned result.  last.again records that a mutator was
\* called twice in a row with the same argument, last.response what a
\* request was answered, last.fresh that the current identity is the one
\* reset() installed.
Returned(op, arg, result) ==
    \E r \in {result} :
    \E order \in {Live(r.h, Roots(r.this, r.ret) \o KeptRoots(kept)
                                                \o OtherRoots(other))} :
        /\ kept' = RenameKept(order, kept, op)
        /\ other' = RenameOther(order, other, op)
        /\ heap' = Collect(r.h, order)
        /\ authObject' = Index(order, r.this.authObject)
        /\ defaultAuthObject' = Index(order, r.this.defaultAuthObject)
        /\ last' = [op |-> op, arg |-> arg, ret |-> RenameResult(order, r.ret),
                    again |-> op \in Mutators /\ last.op = op /\ last.arg = arg,
                    response |-> IF "response" \in DOMAIN r
                                 THEN r.response ELSE Undefined,
                    fresh |-> IF op \in Mutators THEN op = "reset"
                              ELSE last.fresh]

CallSetUser ==
    \E userData \in UserDatas :
        LET e == Evaluate(heap, userData)
        IN  /\ Returned("setUser", userData, SetUser(e.h, This, e.cell))
            /\ UNCHANGED <<installed, userIdAtPlugin, constructed>>

CallMockAdmin ==
    \E customProps \in UserDatas :
        LET e == Evaluate(heap, customProps)
        IN  /\ Returned("mockAdmin", customProps, MockAdmin(e.h, This, e.cell))
            /\ UNCHANGED <<installed, userIdAtPlugin, constructed>>

CallMockUser ==
    \E customProps \in UserDatas :
        LET e == Evaluate(heap, customProps)
        IN  /\ Returned("mockUser", customProps, MockUser(e.h, This, e.cell))
            /\ UNCHANGED <<installed, userIdAtPlugin, constructed>>

CallMockUnauthenticated ==
    /\ Returned("mockUnauthenticated", Undefined, MockUnauthenticated(heap, This))
    /\ UNCHANGED <<installed, userIdAtPlugin, constructed>>

CallGetUser ==
    /\ Returned("getUser", Undefined, GetUser(heap, This))
    /\ UNCHANGED <<installed, userIdAtPlugin, constructed>>

CallReset ==
    /\ Returned("reset", Undefined, Reset(heap, This))
    /\ UNCHANGED <<installed, userIdAtPlugin, constructed>>

\* plugin(): a new Elysia instance with the clerk client and the gate.
CallPlugin ==
    /\ Returned("plugin", Undefined, Plugin(heap, This))
    /\ installed' = TRUE
    /\ userIdAtPlugin' = heap[authObject].userId
    /\ UNCHANGED constructed

\* A request to an app that uses the plugin.
Request ==
    /\ installed
    /\ \E authorization \in Authorizations, route \in Routes :
        Returned("request", authorization,
                 Handle(heap, This, authorization, route))
    /\ UNCHANGED <<installed, userIdAtPlugin, constructed>>

\* clerk.authenticateRequest(request), on the client plugin() decorated
\* the app with.
CallAuthenticateRequest ==
    /\ installed
    /\ \E request \in ClerkRequests :
        Returned("authenticateRequest", request,
                 AuthenticateRequest(heap, This, request))
    /\ UNCHANGED <<installed, userIdAtPlugin, constructed>>

\* toAuth() of the request state authenticateRequest has just returned.
CallToAuth ==
    /\ last.op = "authenticateRequest"
    /\ Returned("toAuth", last.arg, ToAuth(heap, This))
    /\ UNCHANGED <<installed, userIdAtPlugin, constructed>>

Next ==
    \/ CallSetUser
    \/ CallMockAdmin
    \/ CallMockUser
    \/ CallMockUnauthenticated
    \/ CallGetUser
    \/ CallReset
    \/ CallPlugin
    \/ Request
    \/ CallAuthenticateRequest
    \/ CallToAuth

Spec == Init /\ [][Next]_vars

----------------------------------------------------------------------------
(* A caller that writes to the object a call has handed to it.             *)

\* The value the caller writes.
Written == Str("x")

\* object[key] = value
Assign(h, object, key, value) ==
    [h EXCEPT ![object] = (key :> value) @@ @]

\* The property the caller writes in a nested object: an element of an
\* array, the subject of a record.
WrittenKey(nested) == IF nested = "orgPermissions" THEN "0" ELSE "sub"

\* The caller writes to the object the last call returned: to its userId,
\* or to a property of its sessionClaims, actor or orgPermissions.
CallerAssign ==
    /\ last.ret.kind = "object"
    /\ \E path \in {"userId", "sessionClaims", "actor", "orgPermissions"} :
        LET held == last.ret.a
            origin == IF last.op = "assign" THEN last.arg.origin ELSE last.op
            h == IF path = "userId"
                 THEN Assign(heap, held, "userId", Written)
                 ELSE Assign(heap, heap[held][path].a, WrittenKey(path), Written)
        IN  /\ path # "userId" => IsNested(heap[held], path)
            /\ Returned("assign", [origin |-> origin, path |-> path],
                        [h |-> h, this |-> This, ret |-> last.ret])
    /\ UNCHANGED <<installed, userIdAtPlugin, constructed>>

NextCaller ==
    \/ CallSetUser
    \/ CallMockAdmin
    \/ CallMockUser
    \/ CallMockUnauthenticated
    \/ CallGetUser
    \/ CallReset
    \/ CallerAssign

\* The store and a caller that writes to what it was handed.
SpecCaller == Init /\ [][NextCaller]_vars

----------------------------------------------------------------------------
(* A handler that writes to the auth it was given.                         *)

\* The header of a request the gate admits.
ValidAuthorization ==
    Text(BearerPrefix \o <<"v", "a", "l", "i", "d", "-", "t", "o", "k", "e", "n">>)

\* A request with "Bearer valid-token" to /protected.
Serve ==
    /\ installed
    /\ Returned("request", ValidAuthorization,
                Handle(heap, This, ValidAuthorization, "/protected"))
    /\ UNCHANGED <<installed, userIdAtPlugin, constructed>>

\* The handler of the admitted request, or code it passed auth to, does
\* auth.userId = "x".
HandlerAssign ==
    /\ last.op = "request"
    /\ last.ret.kind = "context"
    /\ Returned("assign", [origin |-> "request", path |-> "userId"],
                [h |-> Assign(heap, last.ret.auth.a, "userId", Written),
                 this |-> This, ret |-> last.ret])
    /\ UNCHANGED <<installed, userIdAtPlugin, constructed>>

NextHandler ==
    \/ CallSetUser
    \/ CallMockAdmin
    \/ CallMockUser
    \/ CallMockUnauthenticated
    \/ CallGetUser
    \/ CallReset
    \/ CallPlugin
    \/ Serve
    \/ HandlerAssign

\* The store, admitted requests and a handler that writes to its auth.
SpecHandler == Init /\ [][NextHandler]_vars

----------------------------------------------------------------------------
(* A caller that keeps a request state while the store is changed.         *)

\* The state once a store is constructed and an app uses its plugin.
InitApp ==
    \E initialUser \in InitialUsers :
        LET e == Evaluate(ModuleHeap, initialUser)
            c == Constructor(e.h, e.cell)
            order == Live(c.h, Roots(c.this, Undefined))
        IN  /\ heap = Collect(c.h, order)
            /\ authObject = Index(order, c.this.authObject)
            /\ defaultAuthObject = Index(order, c.this.defaultAuthObject)
            /\ installed = TRUE
            /\ last = [op |-> "plugin", arg |-> Undefined,
                       ret |-> Plugin(c.h, c.this).ret,
                       again |-> FALSE, response |-> Undefined,
                       fresh |-> FALSE]
            /\ userIdAtPlugin = c.h[c.this.authObject].userId
            /\ constructed = Deep(c.h, Ref(c.this.authObject))
            /\ kept = Undefined
            /\ other = Undefined

\* const s = clerk.authenticateRequest(request): the caller keeps s.
KeepRequestState ==
    /\ last.op = "authenticateRequest"
    /\ kept' = last.ret
    /\ UNCHANGED <<heap, authObject, defaultAuthObject, installed, last,
                   userIdAtPlugin, constructed, other>>

\* s.toAuth() of the request state the caller kept.
CallKeptToAuth ==
    /\ kept.kind = "requestState"
    /\ Returned("toAuth", Undefined, ToAuth(heap, This))
    /\ UNCHANGED <<installed, userIdAtPlugin, constructed>>

NextClient ==
    \/ CallSetUser
    \/ CallMockAdmin
    \/ CallMockUser
    \/ CallMockUnauthenticated
    \/ CallReset
    \/ CallAuthenticateRequest
    \/ KeepRequestState
    \/ CallKeptToAuth

\* The store, the clerk client and a caller that keeps a request state.
SpecClient == InitApp /\ [][NextClient]_vars

----------------------------------------------------------------------------
(* A caller that keeps an identity while the store is changed.             *)

\* How many mutators are called after an identity was handed out.
MaxLater == 1

\* The caller keeps the object getUser() returned, or a handler still
\* running keeps the auth of its request; kept.value is what the object
\* held then.
KeepObject ==
    /\ last.op \in {"getUser", "request"}
    /\ Held(last.ret) # <<>>
    /\ kept' = [kind |-> "handed",
                object |-> Ref(Held(last.ret)[1]),
                value |-> Deep(heap, Ref(Held(last.ret)[1])),
                from |-> last.op,
                later |-> 0]
    /\ UNCHANGED <<heap, authObject, defaultAuthObject, installed, last,
                   userIdAtPlugin, constructed, other>>

LaterAllowed == kept.kind = "handed" => kept.later < MaxLater

NextKept ==
    \/ LaterAllowed /\ CallSetUser
    \/ LaterAllowed /\ CallMockAdmin
    \/ LaterAllowed /\ CallMockUser
    \/ LaterAllowed /\ CallMockUnauthenticated
    \/ LaterAllowed /\ CallReset
    \/ CallGetUser
    \/ Serve
    \/ KeepObject

\* The store, admitted requests and a caller that keeps what it was
\* handed.
SpecKept == InitApp /\ [][NextKept]_vars

----------------------------------------------------------------------------
(* Two stores: the exported clerkMock and a new ElysiaClerkMock.           *)

\* How many mutators are called on the two stores together.
MaxCalls == 3

\* The state once the module is loaded, which constructs clerkMock, a
\* second store is constructed, and each has an app that uses its plugin.
\* The calls go to the second store; clerkMock is the other one.
InitStores ==
    \E initialUser \in InitialUsers :
        LET b == Constructor(ModuleHeap, EmptyObject)
            e == Evaluate(b.h, initialUser)
            c == Constructor(e.h, e.cell)
            order == Live(c.h, Roots(c.this, Undefined)
                               \o <<b.this.defaultAuthObject, b.this.authObject>>)
        IN  /\ heap = Collect(c.h, order)
            /\ authObject = Index(order, c.this.authObject)
            /\ defaultAuthObject = Index(order, c.this.defaultAuthObject)
            /\ installed = TRUE
            /\ last = [op |-> "plugin", arg |-> Undefined,
                       ret |-> Plugin(c.h, c.this).ret,
                       again |-> FALSE, response |-> Undefined,
                       fresh |-> FALSE]
            /\ userIdAtPlugin = c.h[c.this.authObject].userId
            /\ constructed = Deep(c.h, Ref(c.this.authObject))
            /\ kept = Undefined
            /\ other = [kind |-> "store",
                        authObject |-> Index(order, b.this.authObject),
                        defaultAuthObject |-> Index(order, b.this.defaultAuthObject),
                        userIdAtPlugin |-> b.h[b.this.authObject].userId,
                        constructed |-> Deep(b.h, Ref(b.this.authObject)),
                        calls |-> 0]

\* The test turns to the other store: the calls that follow go to it.
Switch ==
    /\ other.kind = "store"
    /\ \E order \in {Live(heap, <<DEFAULT_AUTH_OBJECT, other.defaultAuthObject,
                                   other.authObject, defaultAuthObject,
                                   authObject>>)} :
        /\ heap' = Collect(heap, order)
        /\ authObject' = Index(order, other.authObject)
        /\ defaultAuthObject' = Index(order, other.defaultAuthObject)
        /\ other' = [other EXCEPT
                        !.authObject = Index(order, authObject),
                        !.defaultAuthObject = Index(order, defaultAuthObject),
                        !.userIdAtPlugin = userIdAtPlugin,
                        !.constructed = constructed]
    /\ userIdAtPlugin' = other.userIdAtPlugin
    /\ constructed' = other.constructed
    /\ last' = [op |-> "switch", arg |-> Undefined, ret |-> Undefined,
                again |-> FALSE, response |-> Undefined, fresh |-> FALSE]
    /\ UNCHANGED <<installed, kept>>

CallsAllowed == other.kind = "store" => other.calls < MaxCalls

NextStores ==
    \/ CallsAllowed /\ CallSetUser
    \/ CallsAllowed /\ CallMockAdmin
    \/ CallsAllowed /\ CallMockUser
    \/ CallsAllowed /\ CallMockUnauthenticated
    \/ CallsAllowed /\ CallReset
    \/ Serve
    \/ Switch

\* Two stores, each with its app, and a test that calls now one, now the
\* other.
SpecStores == InitStores /\ [][NextStores]_vars

\* Every reference leads to an object.
HeapClosed ==
    \A a \in DOMAIN heap : RefsOf(heap[a]) \subseteq DOMAIN heap

----------------------------------------------------------------------------
(* The request gate's contract.                                            *)

Requested == last.op = "request"
Admitted == Requested /\ last.ret.kind = "context"
Current == heap[authObject]

HdrBearer == <<"B", "e", "a", "r", "e", "r", " ">>
HdrInvalid == Text(<<"B", "e", "a", "r", "e", "r", " ", "i", "n", "v", "a", "l", "i", "d", "-", "t", "o", "k", "e", "n">>)
HdrExpired == Text(<<"B", "e", "a", "r", "e", "r", " ", "e", "x", "p", "i", "r", "e", "d", "-", "t", "o", "k", "e", "n">>)
HdrValid == Text(<<"B", "e", "a", "r", "e", "r", " ", "v", "a", "l", "i", "d", "-", "t", "o", "k", "e", "n">>)
HdrInvalid2 == Text(<<"B", "e", "a", "r", "e", "r", " ", "i", "n", "v", "a", "l", "i", "d", "-", "t", "o", "k", "e", "n", "2">>)
HdrEmptyToken == Text(<<"B", "e", "a", "r", "e", "r", " ">>)
HdrLowerCase == Text(<<"b", "e", "a", "r", "e", "r", " ", "x">>)

\* The header is there, is not empty and begins with the seven characters
\* of "Bearer ".
HasBearerPrefix(a) ==
    /\ a # Null
    /\ Len(a.chars) >= 7
    /\ \A i \in 1..7 : a.chars[i] = HdrBearer[i]

Rejection(message) == [kind |-> "error", status |-> 401, message |-> message]

\* C1: a request whose Authorization header is absent, empty or does not
\* start with "Bearer " is rejected with 401 "Unauthorized - No token
\* provided", whatever the current identity is.
C1_NoTokenRejected ==
    (Requested /\ ~HasBearerPrefix(last.arg))
        => last.ret = Rejection("Unauthorized - No token provided")

\* "bearer x" was rejected while the store holds the admin preset.
C1_Witness ==
    /\ Requested
    /\ last.arg = HdrLowerCase
    /\ last.ret = Rejection("Unauthorized - No token provided")
    /\ Current.userId = Str("user_admin")

\* C2: a request whose Authorization header is exactly "Bearer
\* invalid-token" is rejected with 401 "Unauthorized - Invalid token" in
\* every store state.
C2_InvalidTokenRejected ==
    (Requested /\ last.arg = HdrInvalid)
        => last.ret = Rejection("Unauthorized - Invalid token")

\* "Bearer invalid-token" was rejected while the store is signed out.
C2_Witness ==
    /\ Requested
    /\ last.arg = HdrInvalid
    /\ last.ret = Rejection("Unauthorized - Invalid token")
    /\ Current.userId = Null

\* C3: a request whose Authorization header is exactly "Bearer
\* expired-token" is rejected with 401 "Unauthorized - Expired token" in
\* every store state.
C3_ExpiredTokenRejected ==
    (Requested /\ last.arg = HdrExpired)
        => last.ret = Rejection("Unauthorized - Expired token")

\* "Bearer expired-token" was rejected while the store holds the member
\* preset.
C3_Witness ==
    /\ Requested
    /\ last.arg = HdrExpired
    /\ last.ret = Rejection("Unauthorized - Expired token")
    /\ Current.userId = Str("user_regular")

\* C4: a request whose Authorization header starts with "Bearer " and is
\* neither "Bearer invalid-token" nor "Bearer expired-token" is admitted,
\* and its auth is the store's current identity.
C4_OtherBearerAdmitted ==
    (Requested /\ HasBearerPrefix(last.arg)
               /\ last.arg \notin {HdrInvalid, HdrExpired})
        => /\ last.ret.kind = "context"
           /\ last.ret.auth = Ref(authObject)

\* "Bearer invalid-token2" was admitted with the admin preset as auth.
C4_Witness ==
    /\ Admitted
    /\ last.arg = HdrInvalid2
    /\ heap[last.ret.auth.a].userId = Str("user_admin")

\* The decision of the gate, without the identity it attaches.
Decision(ret) ==
    IF ret.kind = "context" THEN "admitted" ELSE ret.message

\* The decision as a function of the header alone.
DecisionFor(a) ==
    IF ~HasBearerPrefix(a) THEN "Unauthorized - No token provided"
    ELSE IF a = HdrInvalid THEN "Unauthorized - Invalid token"
    ELSE IF a = HdrExpired THEN "Unauthorized - Expired token"
    ELSE "admitted"

\* C5: the decision of the gate and its rejection message are a function
\* of the Authorization header alone, the same in every store state; a
\* request with "Bearer valid-token" is admitted while the store is
\* signed out, with auth.userId = null.
C5_DecisionByHeaderAlone ==
    Requested =>
        /\ Decision(last.ret) = DecisionFor(last.arg)
        /\ (last.arg = HdrValid /\ Current.userId = Null)
              => /\ last.ret.kind = "context"
                 /\ heap[last.ret.auth.a].userId = Null

\* "Bearer valid-token" was admitted while the store is signed out.
C5_Witness ==
    /\ Admitted
    /\ last.arg = HdrValid
    /\ Current.userId = Null
    /\ Current.sessionClaims = Null
    /\ heap[last.ret.auth.a].userId = Null

\* C6: the identity attached to an admitted request is the store's current
\* identity at the moment the request is processed, whatever the identity
\* was when plugin() was called.
C6_AuthIsCurrentAtRequest ==
    Admitted => Deep(heap, last.ret.auth) = Deep(heap, Ref(authObject))

\* A request was admitted after the identity had changed since plugin():
\* it observed the new userId.
C6_Witness ==
    /\ Admitted
    /\ userIdAtPlugin = Str("user_admin")
    /\ Current.userId = Str("user_regular")
    /\ heap[last.ret.auth.a].userId = Str("user_regular")

----------------------------------------------------------------------------
(* The store's contract.                                                   *)

\* The current and the default identity, as values.
StoreValue(h, ao, dao) ==
    [current |-> Deep(h, Ref(ao)), default |-> Deep(h, Ref(dao))]

\* What getUser() returns, as a value.
GetUserValue(h, this) ==
    LET g == GetUser(h, this) IN Deep(g.h, g.ret)

\* C7: a request (admitted or rejected), plugin() and getUser() leave the
\* current and the default identity as they were.
C7_ReadsLeaveStoreUnchanged ==
    [][last'.op \in {"request", "plugin", "getUser"}
         => StoreValue(heap', authObject', defaultAuthObject')
              = StoreValue(heap, authObject, defaultAuthObject)]_vars

\* A request was admitted and the store still holds the identity that
\* setUser({userId: "u1", orgId: "o1"}) gave it.
C7_Witness ==
    /\ Admitted
    /\ Current.userId = Str("u1")
    /\ Current.orgId = Str("o1")
    /\ heap[last.ret.auth.a].userId = Str("u1")

\* C8: after setUser(f), getUser() has f's value for each key of f and the
\* previous value for every other key; setUser({}) changes nothing.
C8_ShallowMerge ==
    [][last'.op = "setUser"
         => LET f == last'.arg
                c == Deep(heap, Ref(authObject))
                g == GetUserValue(heap', [authObject |-> authObject',
                                          defaultAuthObject |-> defaultAuthObject'])
            IN  /\ DOMAIN g = DOMAIN c \cup DOMAIN f
                /\ \A k \in DOMAIN f : g[k] = DeepLit(f[k])
                /\ \A k \in DOMAIN c \ DOMAIN f : g[k] = c[k]]_vars

\* setUser({userId: "u1", orgId: "o1"}) was called on the admin preset:
\* the two keys are overridden, the preset's role and claims are kept.
C8_Witness ==
    /\ last.op = "setUser"
    /\ last.arg = [userId |-> Str("u1"), orgId |-> Str("o1")]
    /\ Current.userId = Str("u1")
    /\ Current.orgRole = Str("org:admin")
    /\ Deep(heap, Current.sessionClaims).sub = Str("user_admin")

SuppliesClaims ==
    /\ last.op \in {"setUser", "mockAdmin", "mockUser"}
    /\ "sessionClaims" \in DOMAIN last.arg

\* C9: when setUser or a preset is given a sessionClaims, the resulting
\* sessionClaims is exactly the supplied record.
C9_ClaimsReplacedWholesale ==
    SuppliesClaims
        => Deep(heap, Current.sessionClaims) = DeepLit(last.arg.sessionClaims)

\* mockAdmin was given a sessionClaims without roles: the admin preset's
\* roles are not in the result.
C9_Witness ==
    /\ SuppliesClaims
    /\ last.op = "mockAdmin"
    /\ Current.userId = Str("user_admin")
    /\ "roles" \notin DOMAIN heap[Current.sessionClaims.a]
    /\ heap[Current.sessionClaims.a].customClaim = Str("custom-value")

\* C10: the default identity is the one captured at construction after
\* any calls, and reset() makes getUser() equal to it.
C10_ResetRestoresConstructed ==
    /\ Deep(heap, Ref(defaultAuthObject)) = constructed
    /\ last.op = "reset" => GetUserValue(heap, This) = constructed

\* reset() was called after the store had been signed out at the time of
\* plugin(): getUser() is the constructed identity again.
C10_Witness ==
    /\ last.op = "reset"
    /\ userIdAtPlugin = Null
    /\ GetUserValue(heap, This) = constructed
    /\ Current.userId # Null

----------------------------------------------------------------------------
(* The presets' contract.                                                  *)

\* A preset was called without overrides.
PresetAlone(op) == last.op = op /\ last.arg = EmptyObject

\* The roles of a sessionClaims value, as a set of values.
RolesOf(claims) ==
    IF "roles" \notin DOMAIN claims THEN {}
    ELSE IF "kind" \in DOMAIN claims.roles THEN {}
    ELSE {claims.roles[i] : i \in DOMAIN claims.roles}

\* C12: from any state, after mockAdmin() getUser() has userId
\* "user_admin", orgId "org_admin", orgRole "org:admin" and roles
\* containing "org:admin"; after mockUser() it has userId "user_regular",
\* orgId "org_regular", orgRole "org:member" and roles containing
\* "org:member".
C12_PresetsAlone ==
    LET g == GetUserValue(heap, This)
    IN  /\ PresetAlone("mockAdmin")
            => /\ g.userId = Str("user_admin")
               /\ g.orgId = Str("org_admin")
               /\ g.orgRole = Str("org:admin")
               /\ Str("org:admin") \in RolesOf(g.sessionClaims)
        /\ PresetAlone("mockUser")
            => /\ g.userId = Str("user_regular")
               /\ g.orgId = Str("org_regular")
               /\ g.orgRole = Str("org:member")
               /\ Str("org:member") \in RolesOf(g.sessionClaims)

\* mockUser() was called on a signed-out store that had been signed out
\* when plugin() was called: the regular preset is in place.
C12_Witness ==
    /\ PresetAlone("mockUser")
    /\ userIdAtPlugin = Null
    /\ Current.userId = Str("user_regular")
    /\ Current.sessionId = Null
    /\ Str("org:member") \in RolesOf(Deep(heap, Current.sessionClaims))

PresetOf(op) == IF op = "mockAdmin" THEN AdminPreset ELSE UserPreset

\* C13: after mockAdmin(f) or mockUser(f), every key of f has f's value
\* and every key of the preset that f does not have has the preset's
\* value.
C13_PresetsWithOverrides ==
    last.op \in {"mockAdmin", "mockUser"}
        => LET f == last.arg
               p == PresetOf(last.op)
               g == GetUserValue(heap, This)
           IN  /\ \A k \in DOMAIN f : g[k] = DeepLit(f[k])
               /\ \A k \in DOMAIN p \ DOMAIN f : g[k] = DeepLit(p[k])

\* mockAdmin({userId: "u1", orgId: "o1"}) was called: the two keys are
\* the caller's, the role and the claims are the admin preset's.
C13_Witness ==
    /\ last.op = "mockAdmin"
    /\ last.arg = [userId |-> Str("u1"), orgId |-> Str("o1")]
    /\ Current.userId = Str("u1")
    /\ Current.orgId = Str("o1")
    /\ Current.orgRole = Str("org:admin")
    /\ Deep(heap, Current.sessionClaims).sub = Str("user_admin")

NullFields ==
    {"userId", "orgId", "sessionClaims", "sessionId", "actor", "orgRole",
     "orgSlug", "orgPermissions", "factorVerificationAge"}

\* C14: from any state, after mockUnauthenticated() the nine identity
\* fields are null, getToken, has and debug are the built-in functions,
\* and the identity has no other field.
C14_UnauthenticatedIsAbsolute ==
    last.op = "mockUnauthenticated"
        => LET g == GetUserValue(heap, This)
           IN  /\ DOMAIN g = NullFields \cup {"getToken", "has", "debug"}
               /\ \A k \in NullFields : g[k] = Null
               /\ g.getToken = Fn("async () => \"\"")
               /\ g.has = Fn("() => false")
               /\ g.debug = Fn("() => ({})")

\* mockUnauthenticated() was called on a store constructed with userId
\* "user_init" and that was the admin when plugin() was called: nothing
\* of either is left.
C14_Witness ==
    /\ last.op = "mockUnauthenticated"
    /\ constructed.userId = Str("user_init")
    /\ userIdAtPlugin = Str("user_admin")
    /\ Current.userId = Null
    /\ Current.orgRole = Null
    /\ "customField" \notin DOMAIN Current

\* C17: after construction with the partial identity p, the current and
\* the default identity are both the built-in identity (userId
\* "user_default", orgId "org_default", sessionId "sess_default", orgRole
\* "org:member", factorVerificationAge null) with p's keys overridden,
\* and reset() called at once changes nothing.
C17_Initialization ==
    last.op = "new"
        => LET p == last.arg
               base == Deep(ModuleHeap, Ref(DEFAULT_AUTH_OBJECT))
               want == [k \in DOMAIN base \cup DOMAIN p |->
                          IF k \in DOMAIN p THEN DeepLit(p[k]) ELSE base[k]]
               r == Reset(heap, This)
           IN  /\ base.userId = Str("user_default")
               /\ base.orgId = Str("org_default")
               /\ base.sessionId = Str("sess_default")
               /\ base.orgRole = Str("org:member")
               /\ base.factorVerificationAge = Null
               /\ Deep(heap, Ref(authObject)) = want
               /\ Deep(heap, Ref(defaultAuthObject)) = want
               /\ StoreValue(r.h, r.this.authObject, r.this.defaultAuthObject)
                    = StoreValue(heap, authObject, defaultAuthObject)

\* A store was constructed with {userId: "user_init", orgRole:
\* "org:owner"}: both keys are overridden, the other fields are built in.
C17_Witness ==
    /\ last.op = "new"
    /\ last.arg = [userId |-> Str("user_init"), orgRole |-> Str("org:owner")]
    /\ Current.userId = Str("user_init")
    /\ Current.orgRole = Str("org:owner")
    /\ Current.orgId = Str("org_default")
    /\ heap[defaultAuthObject].userId = Str("user_init")

\* The identity a preset called without arguments leaves on a store that
\* has just been constructed: the preset over the constructed identity.
KnownState(op) ==
    LET p == PresetOf(op)
    IN  [k \in DOMAIN constructed \cup DOMAIN p |->
            IF k \in DOMAIN p THEN DeepLit(p[k]) ELSE constructed[k]]

\* C16: whatever was called before, getUser() after mockUser() is one and
\* the same identity, and likewise after mockAdmin(): the one the preset
\* leaves on a new store, with no field of an earlier call in it.
C16_PresetResetsToKnownState ==
    \A op \in {"mockAdmin", "mockUser"} :
        PresetAlone(op) => GetUserValue(heap, This) = KnownState(op)

\* The value is a string.
IsString(v) == v.kind = "string"

\* The all-null shape of an identity value.
AllNull(g) == \A k \in NullFields : k \in DOMAIN g /\ g[k] = Null

\* The signed-in shape of an identity value: userId and sessionId are
\* strings and sessionClaims is a record.
SignedInShape(g) ==
    /\ IsString(g.userId)
    /\ IsString(g.sessionId)
    /\ "kind" \notin DOMAIN g.sessionClaims

\* C20: in every state reached by the presets, mockUnauthenticated, reset
\* and setUser or preset overrides with non-null values only, the current
\* identity is all-null or has the signed-in shape.
C20_TwoShapes ==
    LET g == Deep(heap, Ref(authObject))
    IN  AllNull(g) \/ SignedInShape(g)

\* C15: calling mockAdmin(f), mockUser(f), mockUnauthenticated(),
\* setUser(f) or reset() a second time in a row, with the same argument,
\* leaves the current identity that the first call left.
C15_Idempotent ==
    [][last'.again
         => Deep(heap', Ref(authObject')) = Deep(heap, Ref(authObject))]_vars

\* mockAdmin({userId: "u1", orgId: "o1"}) was called twice in a row.
C15_Witness ==
    /\ last.again
    /\ last.op = "mockAdmin"
    /\ last.arg = [userId |-> Str("u1"), orgId |-> Str("o1")]
    /\ Current.userId = Str("u1")
    /\ Current.orgRole = Str("org:admin")

----------------------------------------------------------------------------
(* The clerk client's contract.                                            *)

\* C18: authenticateRequest(r).status is signed_in exactly when the
\* current userId is not null, and toAuth() returns the current userId and
\* orgId with isAuthenticated = (userId is not null), as the store is when
\* the call is made, whatever the request and whatever the store was when
\* plugin() was called.
C18_ClientReflectsCurrent ==
    /\ last.op = "authenticateRequest"
        => (last.ret.status = "signed_in" <=> Current.userId # Null)
    /\ last.op = "toAuth"
        => /\ last.ret.userId = Current.userId
           /\ last.ret.orgId = Current.orgId
           /\ last.ret.isAuthenticated = (Current.userId # Null)

\* toAuth() was called for a request carrying "Bearer invalid-token", on a
\* store signed out when plugin() was called and made the admin since.
C18_Witness ==
    /\ last.op = "toAuth"
    /\ last.arg = HdrInvalid
    /\ userIdAtPlugin = Null
    /\ Current.userId = Str("user_admin")
    /\ last.ret.userId = Str("user_admin")
    /\ last.ret.orgId = Str("org_admin")
    /\ last.ret.isAuthenticated

----------------------------------------------------------------------------
(* The gate and the handlers.                                              *)

\* C19: on every route, reading auth or not, the handler runs exactly when
\* the gate admits the request; a rejected request reaches no handler and
\* has no auth, and every request ends in exactly one of the four outcomes
\* (three 401 rejections, admission).
C19_GateShortCircuits ==
    Requested =>
        /\ (last.response.handler = last.response.route) <=> Admitted
        /\ ~Admitted => /\ last.response.handler = "none"
                        /\ last.response.status = 401
                        /\ "auth" \notin DOMAIN last.ret
        /\ Admitted => "auth" \in DOMAIN last.ret
        /\ \/ last.ret = Rejection("Unauthorized - No token provided")
           \/ last.ret = Rejection("Unauthorized - Invalid token")
           \/ last.ret = Rejection("Unauthorized - Expired token")
           \/ Admitted

\* "Bearer expired-token" was sent to /public while the store holds the
\* admin preset: 401, and the handler that reads no auth did not run.
C19_Witness ==
    /\ Requested
    /\ last.arg = HdrExpired
    /\ last.response.route = "/public"
    /\ last.response.handler = "none"
    /\ last.response.status = 401
    /\ Current.userId = Str("user_admin")

----------------------------------------------------------------------------
(* What a caller can do to the store through what it was handed.           *)

\* C11: getUser() returns a defensive copy: no write a caller makes to the
\* returned object, to a top-level field or inside its sessionClaims,
\* actor or orgPermissions, changes the current identity, which is what a
\* later getUser() returns and what a later admitted request gets as auth.
C11_GetUserIsDefensiveCopy ==
    [][(last'.op = "assign" /\ last'.arg.origin = "getUser")
         => Deep(heap', Ref(authObject')) = Deep(heap, Ref(authObject))]_vars

----------------------------------------------------------------------------
(* The functions of an identity.                                           *)

\* The permissions asked for: one that UserDatas lists in orgPermissions,
\* the admin's role, and one nobody has.
Permissions == {Str("org:read"), Str("org:admin"), Str("org:write")}

\* C24: when neither the constructor nor any call supplied getToken, has
\* or debug, in every state has(p) of the current identity returns false
\* for every permission p, getToken() resolves to the empty string and
\* debug() returns an empty record.
C24_CapabilityFunctions ==
    /\ \A p \in Permissions :
          Call(Current.has, p) = [kind |-> "boolean", b |-> FALSE]
    /\ Call(Current.getToken, Undefined)
          = [kind |-> "promise", value |-> Str("")]
    /\ Call(Current.debug, Undefined) = Lit(EmptyObject)

\* The admin preset was put over an identity that lists "org:read" in its
\* orgPermissions: has("org:read") is false all the same.
C24_Witness ==
    /\ last.op = "mockAdmin"
    /\ Current.userId = Str("user_admin")
    /\ IsNested(Current, "orgPermissions")
    /\ heap[Current.orgPermissions.a]["0"] = Str("org:read")
    /\ Call(Current.has, Str("org:read")) = [kind |-> "boolean", b |-> FALSE]

\* C22: the auth of an admitted request is a snapshot: a handler that
\* assigns to a field of auth does not change the current identity, which
\* is what getUser() returns afterwards and what the next admitted request
\* receives.
C22_AuthIsSnapshot ==
    [][(last'.op = "assign" /\ last'.arg.origin = "request")
         => Deep(heap', Ref(authObject')) = Deep(heap, Ref(authObject))]_vars

\* C21: reset() installs a deep copy of the default: a write inside the
\* sessionClaims, actor or orgPermissions of the identity getUser()
\* returned after reset() leaves the default identity, which is what a
\* later reset() restores, as it was.
C21_ResetCopiesDeep ==
    [][(/\ last.fresh
        /\ last'.op = "assign"
        /\ last'.arg.origin = "getUser"
        /\ last'.arg.path # "userId")
         => Deep(heap', Ref(defaultAuthObject'))
              = Deep(heap, Ref(defaultAuthObject))]_vars

\* C26: for one request state s of authenticateRequest, s.status is
\* signed_in exactly when s.toAuth().isAuthenticated is true, also when
\* the store was changed between the two calls.
C26_StatusAgreesWithToAuth ==
    (last.op = "toAuth" /\ kept.kind = "requestState")
        => (kept.status = "signed_in" <=> last.ret.isAuthenticated)

\* C25: an identity handed out, the auth of an admitted request or the
\* value of getUser(), holds what it held when it was handed out, whatever
\* setUser, mockAdmin, mockUser, mockUnauthenticated and reset calls and
\* requests came after.
C25_HandedOutIsStable ==
    kept.kind = "handed" => Deep(heap, kept.object) = kept.value

\* A handler holds the auth of a request admitted for the admin; after a
\* mockUnauthenticated() the store is signed out and the auth is the admin
\* still.
C25_Witness ==
    /\ kept.kind = "handed"
    /\ kept.from = "request"
    /\ kept.later = 1
    /\ last.op = "mockUnauthenticated"
    /\ Current.userId = Null
    /\ heap[kept.object.a].userId = Str("user_admin")
    /\ heap[kept.object.a].orgRole = Str("org:admin")

----------------------------------------------------------------------------
(* Two stores.                                                             *)

\* The current and the default identity of the store the calls do not go
\* to.
OtherValue(h, o) == StoreValue(h, o.authObject, o.defaultAuthObject)

\* C23: a call of mockAdmin, mockUser, mockUnauthenticated, setUser or
\* reset on one store, or a request to its gate, leaves the current and
\* the default identity of the other store, and so what the other's gate
\* attaches, as they were; the gate of a store attaches that store's own
\* current identity and never the other's.
C23_StoresAreIsolated ==
    [][last'.op # "switch"
         => /\ OtherValue(heap', other') = OtherValue(heap, other)
            /\ (last'.op = "request" /\ last'.ret.kind = "context")
                  => /\ last'.ret.auth.a = authObject'
                     /\ last'.ret.auth.a # other'.authObject]_vars

\* The other store was made the admin, then this one signed out: the
\* other is the admin still, and this store's gate attaches null.
C23_Witness ==
    /\ other.kind = "store"
    /\ other.calls = 2
    /\ heap[other.authObject].userId = Str("user_admin")
    /\ Current.userId = Null
    /\ Admitted
    /\ heap[last.ret.auth.a].userId = Null

====
